---- MODULE Spec2Model ----
(***************************************************************************)
(* Model of the translation layer of the Kakarot RPC adapter:              *)
(*   crates/core/src/models/event.rs   StarknetEvent::to_eth_log           *)
(*   crates/core/src/client/mod.rs     KakarotClient (KakarotProvider)     *)
(*                                                                         *)
(* The client keeps no mutable state: every request is a value computed    *)
(* from its arguments and from the answers of the Starknet provider.  The  *)
(* state of the model is therefore the request in progress: which handler  *)
(* runs (op), where it is suspended (pc), its arguments (arg), its locals  *)
(* (loc), the provider calls it has issued so far (calls) and its result.  *)
(* One action models the code of a handler from one await to the next; the *)
(* provider's answer at each await is chosen nondeterministically.         *)
(*                                                                         *)
(* Field elements, hashes and big integers are kept at full width as       *)
(* big-endian byte sequences, so the 2^128 split, the 32-byte padding and  *)
(* the field prime are the real ones.                                      *)
(***************************************************************************)
EXTENDS Integers, Sequences, FiniteSets, TLC

VARIABLES op, pc, arg, loc, calls, result

vars == <<op, pc, arg, loc, calls, result>>

(***************************************************************************)
(* Bounds of the model.                                                    *)
(***************************************************************************)
\* longest key list of an event handed to to_eth_log
MaxKeys == 5

(***************************************************************************)
(* Byte strings and arbitrary-precision naturals (num_bigint::BigUint).    *)
(* A BigUint is its big-endian byte string without leading zero bytes;     *)
(* zero is the empty string.                                               *)
(***************************************************************************)
Zeros(n) == [i \in 1..n |-> 0]

Repeat(b, n) == [i \in 1..n |-> b]

Max(a, b) == IF a >= b THEN a ELSE b

Last(s) == s[Len(s)]

Front(s) == SubSeq(s, 1, Len(s) - 1)

RECURSIVE StripZeros(_)
StripZeros(bs) ==
  IF bs = <<>> THEN <<>>
  ELSE IF Head(bs) = 0 THEN StripZeros(Tail(bs)) ELSE bs

PadTo(bs, n) == Zeros(n - Len(bs)) \o bs

\* BigUint::from_bytes_be
BigUintFromBytesBe(bs) == StripZeros(bs)

\* BigUint::to_bytes_be: zero is the single byte 0
BigUintToBytesBe(n) == IF n = <<>> THEN <<0>> ELSE n

RECURSIVE AddDigits(_, _, _, _)
AddDigits(a, b, i, c) ==
  IF i = 0 THEN <<c>>
  ELSE LET s == a[i] + b[i] + c IN
       IF s >= 256 THEN AddDigits(a, b, i - 1, 1) \o <<s - 256>>
       ELSE AddDigits(a, b, i - 1, 0) \o <<s>>

\* BigUint + BigUint
BigUintAdd(a, b) ==
  LET n == Max(Len(a), Len(b))
  IN  StripZeros(AddDigits(PadTo(a, n), PadTo(b, n), n, 0))

RECURSIVE SubDigits(_, _, _, _)
SubDigits(a, b, i, br) ==
  IF i = 0 THEN <<>>
  ELSE LET d == a[i] - b[i] - br IN
       IF d < 0 THEN SubDigits(a, b, i - 1, 1) \o <<d + 256>>
       ELSE SubDigits(a, b, i - 1, 0) \o <<d>>

\* a - b for a >= b
BigUintSub(a, b) ==
  LET n == Len(a) IN StripZeros(SubDigits(a, PadTo(b, n), n, 0))

RECURSIVE LessDigits(_, _, _)
LessDigits(a, b, i) ==
  IF i > Len(a) THEN FALSE
  ELSE IF a[i] # b[i] THEN a[i] < b[i] ELSE LessDigits(a, b, i + 1)

BigUintLess(a, b) ==
  IF Len(a) # Len(b) THEN Len(a) < Len(b) ELSE LessDigits(a, b, 1)

RECURSIVE MulDigits(_, _, _, _)
MulDigits(a, m, i, c) ==
  IF i = 0 THEN <<c \div 256, c % 256>>
  ELSE LET s == a[i] * m + c IN
       IF s < 256 THEN MulDigits(a, m, i - 1, 0) \o <<s>>
       ELSE MulDigits(a, m, i - 1, s \div 256) \o <<s % 256>>

\* a * m for a machine-sized m
BigUintMulSmall(a, m) == StripZeros(MulDigits(a, m, Len(a), 0))

\* BigUint::from(2u128).pow(128u32) * high
BigUintMulTwoPow128(high) == IF high = <<>> THEN <<>> ELSE high \o Zeros(16)

(***************************************************************************)
(* Field elements (starknet FieldElement), as the 32 bytes of to_bytes_be. *)
(***************************************************************************)
\* the Stark field prime 2^251 + 17 * 2^192 + 1
PRIME == <<8, 0, 0, 0, 0, 0, 0, 17>> \o Zeros(23) \o <<1>>

\* a field element from a natural below 2^16
Felt(n) == Zeros(30) \o <<n \div 256, n % 256>>

\* FieldElement::ZERO
FeltZero == Zeros(32)

\* FieldElement::MAX = PRIME - 1
FeltMax == <<8, 0, 0, 0, 0, 0, 0, 17>> \o Zeros(24)

\* 2^128 - 1, the largest half of a Uint256
U128Max == Zeros(16) \o Repeat(255, 16)

\* 2^128, the smallest value that does not fit a Uint256 half
TwoPow128 == Zeros(15) \o <<1>> \o Zeros(16)

\* FieldElement::to_bytes_be
FeltToBytesBe(f) == f

\* n * 256 modulo PRIME for n < PRIME: the quotient of n * 256 by PRIME is
\* the quotient by 2^251 or one less
MulByteModP(n) ==
  LET y  == PadTo(n \o <<0>>, 33)
      q  == (y[1] * 256 + y[2]) \div 8
      qp == BigUintMulSmall(PRIME, q)
      ys == StripZeros(y)
  IN  IF BigUintLess(ys, qp) THEN BigUintSub(BigUintAdd(ys, PRIME), qp)
      ELSE BigUintSub(ys, qp)

RECURSIVE MulPow256ModP(_, _)
\* n * 256^k modulo PRIME
MulPow256ModP(n, k) ==
  IF k = 0 \/ n = <<>> THEN n ELSE MulPow256ModP(MulByteModP(n), k - 1)

\* FieldElement * FieldElement for the factor 2^128: the product modulo PRIME
FeltMulTwoPow128(f) == PadTo(MulPow256ModP(StripZeros(f), 16), 32)

\* FieldElement + FieldElement: the sum modulo PRIME
FeltAdd(a, b) ==
  LET sum == BigUintAdd(StripZeros(a), StripZeros(b)) IN
  PadTo(IF BigUintLess(sum, PRIME) THEN sum ELSE BigUintSub(sum, PRIME), 32)

(***************************************************************************)
(* Results.                                                                *)
(***************************************************************************)
Ok(v) == [kind |-> "ok", value |-> v]

Err(e) == [kind |-> "err", error |-> e]

\* the task aborts: a panic unwinding out of the handler
Panic(e) == [kind |-> "panic", error |-> e]

Pending == [kind |-> "pending"]

None == [some |-> FALSE]

Some(v) == [some |-> TRUE, value |-> v]

\* a request without arguments, a handler without locals
NoArg == [none |-> TRUE]

NoLoc == [none |-> TRUE]

(***************************************************************************)
(* Configuration of the client (KakarotClient fields).                     *)
(***************************************************************************)
\* a field element whose 32 bytes are all different
WideFelt == [i \in 1..32 |-> i]

\* KakarotClient.kakarot_address, the interpreter contract
KakarotAddress == Zeros(28) \o <<75, 75, 75, 75>>

\* some contract that is not the interpreter
OtherAddress == Zeros(30) \o <<13, 13>>

(***************************************************************************)
(* Address conversions of models/felt.rs and client/helpers.rs.            *)
(***************************************************************************)
\* Felt252Wrapper -> Address: the low 20 bytes of the field element
FeltToAddress(f) == SubSeq(FeltToBytesBe(f), 13, 32)

\* Felt252Wrapper -> H256 / H256::from(to_bytes_be()): the 32 bytes
FeltToH256(f) == FeltToBytesBe(f)

\* helpers::starknet_address_to_ethereum_address: bytes [12, 32)
StarknetAddressToEthereumAddress(f) == SubSeq(FeltToBytesBe(f), 13, 32)

(***************************************************************************)
(* models/event.rs: StarknetEvent::to_eth_log                              *)
(***************************************************************************)
\* length of an H256
HashLen == 32

\* faulty variant, for sensitivity: the halves are combined the wrong way round
TopicOfChunkSwapped(chunk) ==
  IF Len(chunk) < 2
  THEN Err("Not a convertible event: High value doesn't exist")
  ELSE LET low   == BigUintFromBytesBe(FeltToBytesBe(chunk[1]))
           high  == BigUintFromBytesBe(FeltToBytesBe(chunk[2]))
           bytes == BigUintToBytesBe(BigUintAdd(high, BigUintMulTwoPow128(low)))
       IN  IF Len(bytes) > HashLen
           THEN Panic("attempt to subtract with overflow")
           ELSE Ok(Zeros(HashLen - Len(bytes)) \o bytes)

\* faulty variant, for sensitivity: a missing high half is read as zero
TopicOfChunkZeroHigh(chunk) ==
  LET low   == BigUintFromBytesBe(FeltToBytesBe(chunk[1]))
      high  == IF Len(chunk) < 2 THEN <<>>
               ELSE BigUintFromBytesBe(FeltToBytesBe(chunk[2]))
      bytes == BigUintToBytesBe(BigUintAdd(low, BigUintMulTwoPow128(high)))
  IN  IF Len(bytes) > HashLen
      THEN Panic("attempt to subtract with overflow")
      ELSE Ok(Zeros(HashLen - Len(bytes)) \o bytes)

\* the closure of keys.chunks(2).map(..): one topic from one chunk
TopicOfChunk(chunk) ==
  LET low == BigUintFromBytesBe(FeltToBytesBe(chunk[1])) IN
  IF Len(chunk) < 2
  THEN Err("Not a convertible event: High value doesn't exist")
  ELSE LET high   == BigUintFromBytesBe(FeltToBytesBe(chunk[2]))
           total  == BigUintAdd(low, BigUintMulTwoPow128(high))
           bytes  == BigUintToBytesBe(total)
       IN  \* 32 - bytes.len() on usize: underflow aborts the task
           IF Len(bytes) > HashLen
           THEN Panic("attempt to subtract with overflow")
           ELSE Ok(Zeros(HashLen - Len(bytes)) \o bytes)

RECURSIVE CollectTopics(_, _)
\* keys.chunks(2).map(..).collect::<Result<_, _>>() from key i on: the
\* chunks are mapped in order and the first failure ends the iteration
CollectTopics(keys, i) ==
  IF i > Len(keys) THEN Ok(<<>>)
  ELSE LET chunk == SubSeq(keys, i, IF i + 1 <= Len(keys) THEN i + 1 ELSE i)
           t     == TopicOfChunk(chunk)
       IN  IF t.kind # "ok" THEN t
           ELSE LET rest == CollectTopics(keys, i + 2) IN
                IF rest.kind # "ok" THEN rest
                ELSE Ok(<<t.value>> \o rest.value)

RECURSIVE FlattenFelts(_)
\* felts.iter().flat_map(|felt| felt.to_bytes_be()).collect()
FlattenFelts(felts) ==
  IF felts = <<>> THEN <<>>
  ELSE FeltToBytesBe(Head(felts)) \o FlattenFelts(Tail(felts))

\* faulty variant, for sensitivity: the keys are examined before the emitter
ToEthLogKeysFirst(event, kakarot_address, ctx) ==
  IF event.keys = <<>>
  THEN Err("Kakarot Filter: Event is not an Kakarot evm event")
  ELSE IF event.from_address # kakarot_address
  THEN Err("Kakarot Filter: Event is not part of Kakarot")
  ELSE LET evm_contract_address == Last(event.keys)
           keys    == Front(event.keys)
           address == FeltToAddress(evm_contract_address)
           topics  == CollectTopics(keys, 1)
       IN  IF topics.kind # "ok" THEN topics
           ELSE Ok([address           |-> address,
                    topics            |-> topics.value,
                    data              |-> FlattenFelts(event.data),
                    block_hash        |-> ctx.block_hash,
                    block_number      |-> ctx.block_number,
                    transaction_hash  |-> ctx.transaction_hash,
                    log_index         |-> ctx.log_index,
                    transaction_index |-> ctx.transaction_index,
                    removed           |-> FALSE])

\* StarknetEvent::to_eth_log(client, block_hash, block_number,
\* transaction_hash, log_index, transaction_index); ctx carries the five
\* optional fields the caller supplies
ToEthLog(event, kakarot_address, ctx) ==
  IF event.from_address # kakarot_address
  THEN Err("Kakarot Filter: Event is not part of Kakarot")
  ELSE IF event.keys = <<>>
  THEN Err("Kakarot Filter: Event is not an Kakarot evm event")
  ELSE LET evm_contract_address == Last(event.keys)
           keys    == Front(event.keys)
           address == FeltToAddress(evm_contract_address)
           topics  == CollectTopics(keys, 1)
       IN  IF topics.kind # "ok" THEN topics
           ELSE Ok([address           |-> address,
                    topics            |-> topics.value,
                    data              |-> FlattenFelts(event.data),
                    block_hash        |-> ctx.block_hash,
                    block_number      |-> ctx.block_number,
                    transaction_hash  |-> ctx.transaction_hash,
                    log_index         |-> ctx.log_index,
                    transaction_index |-> ctx.transaction_index,
                    removed           |-> FALSE])

(***************************************************************************)
(* The Starknet provider.  A provider call is recorded when it is issued   *)
(* and its answer when it arrives.                                         *)
(***************************************************************************)
\* StarknetBlockId::Tag(BlockTag::Latest)
Latest == "latest"

\* FunctionCall { contract_address, entry_point_selector, calldata } passed
\* to starknet_provider.call(request, block_id)
FunctionCall(contract_address, selector, calldata, block_id) ==
  [method               |-> "call",
   contract_address     |-> contract_address,
   entry_point_selector |-> selector,
   calldata             |-> calldata,
   block_id             |-> block_id]

\* a provider call that has been issued and not answered yet
Issued(req) == [req |-> req, resp |-> Pending]

\* the provider's answer to the i-th call
Answered(cs, i, resp) == [cs EXCEPT ![i].resp = resp]

\* one step of a handler: where it is suspended next, its locals, the
\* provider calls it has issued and its result
Step(next_pc, locals, issued, res) ==
  [pc |-> next_pc, loc |-> locals, calls |-> issued, result |-> res]

\* the handler returns
Return(locals, issued, res) == Step("done", locals, issued, res)

(***************************************************************************)
(* client/mod.rs: get_evm_address and safe_get_evm_address                 *)
(***************************************************************************)
\* length of an Address
AddressLen == 20

\* faulty variant, for sensitivity: the address is cut from the high end of the 32 bytes
GetEvmAddressHighBytes(resp) ==
  IF resp.kind = "err" THEN Err(resp.error)
  ELSE IF resp.value = <<>>
  THEN Err("Kakarot Core: Failed to get EVM address from smart contract on Kakarot")
  ELSE Ok(SubSeq(FeltToBytesBe(resp.value[1]), 1, AddressLen))

\* get_evm_address after its provider call was answered by resp
GetEvmAddress(resp) ==
  IF resp.kind = "err" THEN Err(resp.error)
  ELSE IF resp.value = <<>>
  THEN Err("Kakarot Core: Failed to get EVM address from smart contract on Kakarot")
  ELSE LET evm_address == FeltToBytesBe(resp.value[1]) IN
       \* evm_address.get(12..32)
       IF Len(evm_address) < 32
       THEN Err("Kakarot Core: Failed to cast EVM address from 32 bytes to 20 bytes EVM format")
       ELSE Ok(SubSeq(evm_address, 13, 32))

\* the provider call get_evm_address issues
GetEvmAddressRequest(starknet_address, starknet_block_id) ==
  FunctionCall(starknet_address, "get_evm_address", <<>>, starknet_block_id)

\* faulty variant, for sensitivity: only a provider error falls back, an empty answer is passed on
SafeGetEvmAddressNoFallbackOnEmpty(starknet_address, resp) ==
  IF resp.kind = "err"
  THEN Ok(StarknetAddressToEthereumAddress(starknet_address))
  ELSE GetEvmAddress(resp)

\* safe_get_evm_address: get_evm_address(..).await.unwrap_or_else(fallback);
\* it returns an Address, written Ok(address)
SafeGetEvmAddress(starknet_address, resp) ==
  LET r == GetEvmAddress(resp) IN
  IF r.kind = "ok" THEN Ok(r.value)
  ELSE Ok(StarknetAddressToEthereumAddress(starknet_address))

(***************************************************************************)
(* client/mod.rs: fee_history                                              *)
(***************************************************************************)
\* constants::gas::BASE_FEE_PER_GAS, returned by base_fee_per_gas()
BaseFeePerGas == "BASE_FEE_PER_GAS"

\* the gas_used_ratio of every block, 0.9, as numerator and denominator
GasUsedRatio == <<9, 10>>

\* block number of BlockNumberOrTag::Earliest
EarliestBlock == 1

\* the most hexadecimal digits a usize holds
UsizeHexDigits == 16

DigitChars == <<"0", "1", "2", "3", "4", "5", "6", "7", "8", "9",
                "a", "b", "c", "d", "e", "f">>

\* the value of a character as a digit, 99 for a character that is none
DigitValue(c) ==
  IF \E d \in 1..16 : DigitChars[d] = c
  THEN (CHOOSE d \in 1..16 : DigitChars[d] = c) - 1
  ELSE 99

RECURSIVE ToDecimalString(_)
\* U256::to_string(): the decimal digits
ToDecimalString(n) ==
  IF n < 10 THEN <<DigitChars[n + 1]>>
  ELSE Append(ToDecimalString(n \div 10), DigitChars[(n % 10) + 1])

RECURSIVE RadixValue(_, _)
RadixValue(chars, radix) ==
  IF chars = <<>> THEN 0
  ELSE RadixValue(Front(chars), radix) * radix + DigitValue(Last(chars))

\* usize::from_str_radix(chars, 16)
UsizeFromStrRadix16(chars) ==
  IF chars = <<>> THEN Err("cannot parse integer from empty string")
  ELSE IF \E i \in 1..Len(chars) : DigitValue(chars[i]) >= 16
  THEN Err("invalid digit found in string")
  ELSE IF Len(chars) > UsizeHexDigits
  THEN Err("number too large to fit in target type")
  ELSE Ok(RadixValue(chars, 16))

RECURSIVE NatToBytes(_)
\* the big-endian bytes of a natural, without leading zeros
NatToBytes(n) ==
  IF n = 0 THEN <<>> ELSE Append(NatToBytes(n \div 256), n % 256)

\* U256::from(n), as its 32 big-endian bytes
U256From(n) == PadTo(NatToBytes(n), 32)

\* U256 - U256 (ruint: wraps modulo 2^256)
U256Sub(a, b) ==
  IF BigUintLess(StripZeros(a), StripZeros(b))
  THEN PadTo(BigUintSub(BigUintAdd(<<1>> \o Zeros(32), StripZeros(a)), StripZeros(b)), 32)
  ELSE PadTo(BigUintSub(StripZeros(a), StripZeros(b)), 32)

\* the provider call block_number()
BlockNumberRequest == [method |-> "block_number"]

\* whether fee_history has to ask the provider for the newest block
FeeHistoryNeedsBlockNumber(newest_block) ==
  newest_block.tag \notin {"number", "earliest"}

\* fee_history(_block_count, _newest_block, _reward_percentiles); resp is the
\* provider's answer to block_number(), read only for a tag
FeeHistory(block_count, newest_block, resp) ==
  LET parsed            == UsizeFromStrRadix16(ToDecimalString(block_count))
      block_count_usize == IF parsed.kind = "ok" THEN parsed.value ELSE 1
      base_fee          == BaseFeePerGas
      base_fee_per_gas  == [i \in 1..(block_count_usize + 1) |-> base_fee]
      gas_used_ratio    == [i \in 1..block_count_usize |-> GasUsedRatio]
  IN  IF FeeHistoryNeedsBlockNumber(newest_block) /\ resp.kind = "err"
      THEN Err(resp.error)
      ELSE LET newest == CASE newest_block.tag = "number"   -> newest_block.number
                           [] newest_block.tag = "earliest" -> EarliestBlock
                           [] OTHER                         -> resp.value
           IN  Ok([base_fee_per_gas |-> base_fee_per_gas,
                   gas_used_ratio   |-> gas_used_ratio,
                   oldest_block     |-> U256Sub(U256From(newest), U256From(block_count)),
                   reward           |-> None])

(***************************************************************************)
(* client/mod.rs: compute_starknet_address, submit_starknet_transaction    *)
(* and send_transaction                                                    *)
(***************************************************************************)
\* Address -> Felt252Wrapper -> FieldElement: the 20 bytes, zero-extended
AddressToFelt(a) == Zeros(12) \o a

\* the provider call compute_starknet_address issues
ComputeStarknetAddressRequest(ethereum_address, starknet_block_id) ==
  FunctionCall(KakarotAddress, "compute_starknet_address",
               <<AddressToFelt(ethereum_address)>>, starknet_block_id)

\* compute_starknet_address after its provider call was answered by resp
ComputeStarknetAddress(resp) ==
  IF resp.kind = "err" THEN Err(resp.error)
  ELSE IF resp.value = <<>>
  THEN Err("Kakarot Core: Failed to get Starknet address from Kakarot")
  ELSE Ok(resp.value[1])

\* TransactionSigned::decode (reth_rlp) on the payloads of the model: a
\* payload <<kind, nonce>> with kind 1, 2 or 3 is a well-formed signed
\* transaction, every other payload is not
DecodeTransactionSigned(data) ==
  IF Len(data) = 2 /\ data[1] \in {1, 2, 3}
  THEN Ok([signature |-> data[1], nonce |-> data[2]])
  ELSE Err("rlp decode error")

\* the two accounts that sign the payloads of the model
SignerA == Repeat(170, 20)

SignerB == [i \in 1..20 |-> 100 + i]

\* TransactionSigned::recover_signer: the signature of kind 1 recovers no
\* signer, kind 2 is signed by SignerA and kind 3 by SignerB
RecoverSigner(transaction) ==
  CASE transaction.signature = 1 -> None
    [] transaction.signature = 2 -> Some(SignerA)
    [] OTHER                     -> Some(SignerB)

\* constants::MAX_FEE
MaxFee == "MAX_FEE"

\* helpers::raw_starknet_calldata(kakarot_address, bytes)
RawStarknetCalldata(kakarot_address, bytes) ==
  [kakarot_address |-> kakarot_address, bytes |-> bytes]

\* the provider call submit_starknet_transaction issues
AddInvokeTransactionRequest(request) ==
  [method |-> "add_invoke_transaction", version |-> "V1", request |-> request]

\* faulty variant, for sensitivity: a failed submission is answered with a default hash
SubmitStarknetTransactionDefaultHash(resp) ==
  IF resp.kind = "err" THEN Ok(Zeros(32))
  ELSE Ok(FeltToH256(resp.value.transaction_hash))

\* submit_starknet_transaction after add_invoke_transaction was answered
SubmitStarknetTransaction(resp) ==
  IF resp.kind = "err" THEN Err(resp.error)
  ELSE Ok(FeltToH256(resp.value.transaction_hash))

\* send_transaction up to its first await: the payload is checked, decoded
\* and its signer recovered
SendTransactionChecks(bytes) ==
  IF bytes = <<>>
  THEN Err("Kakarot send_transaction: Transaction bytes are empty")
  ELSE LET transaction == DecodeTransactionSigned(bytes) IN
       IF transaction.kind = "err"
       THEN Err("Kakarot send_transaction: transaction bytes failed to be decoded")
       ELSE LET evm_address == RecoverSigner(transaction.value) IN
            IF ~evm_address.some
            THEN Err("Kakarot send_transaction: signature ecrecover failed")
            ELSE Ok([transaction |-> transaction.value,
                     evm_address |-> evm_address.value])

\* send_transaction from its entry to the await of compute_starknet_address
SendTransactionEntry(bytes) ==
  LET checked == SendTransactionChecks(bytes) IN
  IF checked.kind = "err" THEN Return(NoLoc, <<>>, checked)
  ELSE Step("compute_starknet_address", checked.value,
            <<Issued(ComputeStarknetAddressRequest(checked.value.evm_address, Latest))>>,
            Pending)

\* the BroadcastedInvokeTransactionV1 send_transaction builds
InvokeRequest(bytes, transaction, starknet_address) ==
  [max_fee        |-> MaxFee,
   signature      |-> <<>>,
   nonce          |-> Felt(transaction.nonce),
   sender_address |-> starknet_address,
   calldata       |-> RawStarknetCalldata(KakarotAddress, bytes)]

\* faulty variant, for sensitivity: the transaction is submitted although the signer was not resolved
SendTransactionSubmitUnresolved(bytes, locals, issued, resp) ==
  LET starknet_address == ComputeStarknetAddress(resp)
      sender == IF starknet_address.kind = "ok" THEN starknet_address.value
                ELSE FeltZero
  IN  Step("add_invoke_transaction", locals,
           Append(Answered(issued, 1, resp),
                  Issued(AddInvokeTransactionRequest(
                           InvokeRequest(bytes, locals.transaction, sender)))),
           Pending)

\* send_transaction from the answer to compute_starknet_address to the
\* await of add_invoke_transaction
SendTransactionOnAddress(bytes, locals, issued, resp) ==
  LET starknet_address == ComputeStarknetAddress(resp) IN
  IF starknet_address.kind = "err"
  THEN Return(locals, Answered(issued, 1, resp), starknet_address)
  ELSE Step("add_invoke_transaction", locals,
            Append(Answered(issued, 1, resp),
                   Issued(AddInvokeTransactionRequest(
                            InvokeRequest(bytes, locals.transaction,
                                          starknet_address.value)))),
            Pending)

\* send_transaction from the answer to add_invoke_transaction to its return
SendTransactionOnSubmitted(locals, issued, resp) ==
  Return(locals, Answered(issued, 2, resp), SubmitStarknetTransaction(resp))

(***************************************************************************)
(* client/mod.rs: transaction_receipt                                      *)
(***************************************************************************)
\* H256 -> Felt252Wrapper (try_into): a hash that is no field element fails
H256ToFelt(hash) ==
  IF BigUintLess(StripZeros(hash), PRIME) THEN Ok(hash)
  ELSE Err("Felt252Wrapper: hash is not a field element")

\* the provider call get_transaction_receipt(transaction_hash)
GetTransactionReceiptRequest(transaction_hash) ==
  [method |-> "get_transaction_receipt", transaction_hash |-> transaction_hash]

\* the provider call get_transaction_by_hash(transaction_hash)
GetTransactionByHashRequest(transaction_hash) ==
  [method |-> "get_transaction_by_hash", transaction_hash |-> transaction_hash]

\* the match on MaybePendingTransactionReceipt: a confirmed invoke receipt
IsInvokeReceipt(receipt) ==
  receipt.variant = "Receipt" /\ receipt.type = "Invoke"

\* faulty variant, for sensitivity: a pending transaction counts as successful
StatusCodePendingAccepted(status) ==
  CASE status \in {"Rejected"}                               -> Some(0)
    [] status \in {"Pending", "AcceptedOnL1", "AcceptedOnL2"} -> Some(1)

\* the match on StarknetTransactionStatus
StatusCode(status) ==
  CASE status \in {"Rejected", "Pending"}           -> Some(0)
    [] status \in {"AcceptedOnL1", "AcceptedOnL2"} -> Some(1)

\* helpers::vec_felt_to_bytes: the big-endian bytes of the elements
VecFeltToBytes(felts) == FlattenFelts(felts)

\* the topics transaction_receipt computes from the keys of an event:
\* (0..keys.len()).step_by(2), keys[i] + keys[i + 1] * 2^128 in the field
ReceiptTopics(keys) ==
  [j \in 1..((Len(keys) + 1) \div 2) |->
     LET i        == 2 * j - 1
         next_key == IF i + 1 <= Len(keys) THEN keys[i + 1] ELSE FeltZero
     IN  FeltToH256(FeltAdd(keys[i], FeltMulTwoPow128(next_key)))]

\* the Log transaction_receipt builds for an event
ReceiptLog(event, contract_address) ==
  [address           |-> contract_address,
   topics            |-> ReceiptTopics(event.keys),
   data              |-> VecFeltToBytes(event.data),
   block_hash        |-> None,
   block_number      |-> None,
   transaction_hash  |-> None,
   transaction_index |-> None,
   log_index         |-> None,
   removed           |-> FALSE]

\* the TransactionReceipt transaction_receipt returns
ReceiptRecord(locals, logs) ==
  [transaction_hash    |-> Some(FeltToH256(locals.receipt.transaction_hash)),
   transaction_index   |-> None,
   block_hash          |-> Some(FeltToH256(locals.receipt.block_hash)),
   block_number        |-> Some(locals.receipt.block_number),
   from                |-> locals.from,
   to                  |-> locals.to,
   cumulative_gas_used |-> 1000000,
   gas_used            |-> Some(500000),
   contract_address    |-> locals.contract_address,
   logs                |-> logs,
   state_root          |-> None,
   logs_bloom          |-> "Bloom::default()",
   status_code         |-> locals.status_code,
   effective_gas_price |-> 1000000,
   transaction_type    |-> 0]

\* transaction_receipt from its entry to the await of get_transaction_receipt
TransactionReceiptEntry(hash) ==
  LET transaction_hash == H256ToFelt(hash) IN
  IF transaction_hash.kind = "err" THEN Return(NoLoc, <<>>, transaction_hash)
  ELSE Step("get_transaction_receipt", NoLoc,
            <<Issued(GetTransactionReceiptRequest(transaction_hash.value))>>,
            Pending)

\* faulty variant, for sensitivity: a receipt that is pending or not an invoke receipt is an error
TransactionReceiptOnReceiptStrict(locals, issued, resp) ==
  LET answered == Answered(issued, 1, resp) IN
  IF resp.kind = "err" THEN Return(locals, answered, Err(resp.error))
  ELSE IF IsInvokeReceipt(resp.value)
  THEN Step("get_transaction_by_hash", [receipt |-> resp.value],
            Append(answered,
                   Issued(GetTransactionByHashRequest(resp.value.transaction_hash))),
            Pending)
  ELSE Return(locals, answered, Err("unsupported receipt"))

\* transaction_receipt from the answer to get_transaction_receipt to the
\* await of get_transaction_by_hash
TransactionReceiptOnReceipt(locals, issued, resp) ==
  LET answered == Answered(issued, 1, resp) IN
  IF resp.kind = "err" THEN Return(locals, answered, Err(resp.error))
  ELSE IF IsInvokeReceipt(resp.value)
  THEN Step("get_transaction_by_hash", [receipt |-> resp.value],
            Append(answered,
                   Issued(GetTransactionByHashRequest(resp.value.transaction_hash))),
            Pending)
  ELSE Return(locals, answered, Ok(None))

\* transaction_receipt from the answer to get_transaction_by_hash to the
\* await of safe_get_evm_address for the sender
TransactionReceiptOnTransaction(locals, issued, resp) ==
  LET answered == Answered(issued, 2, resp) IN
  IF resp.kind = "err" THEN Return(locals, answered, Err(resp.error))
  ELSE IF ~resp.value.sender_address.some
  THEN Return(locals, answered, Err("StarknetTransaction: no sender address"))
  ELSE Step("sender_evm_address",
            [receipt     |-> locals.receipt,
             starknet_tx |-> resp.value],
            Append(answered,
                   Issued(GetEvmAddressRequest(resp.value.sender_address.value, Latest))),
            Pending)

\* transaction_receipt from the sender's address to the await of
\* to_eth_transaction
TransactionReceiptOnSender(locals, issued, resp) ==
  Step("to_eth_transaction",
       [receipt          |-> locals.receipt,
        starknet_tx      |-> locals.starknet_tx,
        contract_address |->
          Some(SafeGetEvmAddress(locals.starknet_tx.sender_address.value, resp).value)],
       Answered(issued, 3, resp),
       Pending)

\* what transaction_receipt does once its logs are complete or the next
\* event needs its address: the loop over the events of the receipt
TransactionReceiptLoop(locals, issued, logs) ==
  IF Len(logs) < Len(locals.receipt.events)
  THEN Step("event_evm_address",
            [locals EXCEPT !.logs = logs],
            Append(issued,
                   Issued(GetEvmAddressRequest(
                            locals.receipt.events[Len(logs) + 1].from_address, Latest))),
            Pending)
  ELSE Return([locals EXCEPT !.logs = logs], issued,
              Ok(Some(ReceiptRecord(locals, logs))))

\* transaction_receipt from the outcome of to_eth_transaction to the first
\* event's address, or to its return when the receipt has no events
TransactionReceiptOnEthTransaction(locals, issued, eth_tx) ==
  IF eth_tx.kind = "err" THEN Return(locals, issued, eth_tx)
  ELSE TransactionReceiptLoop(
         [receipt          |-> locals.receipt,
          starknet_tx      |-> locals.starknet_tx,
          contract_address |-> locals.contract_address,
          from             |-> eth_tx.value.from,
          to               |-> eth_tx.value.to,
          status_code      |-> StatusCode(locals.receipt.status),
          logs             |-> <<>>],
         issued, <<>>)

\* one turn of the loop: the address of the event's emitter has arrived and
\* the log of the event is pushed
TransactionReceiptOnEventAddress(locals, issued, resp) ==
  LET event            == locals.receipt.events[Len(locals.logs) + 1]
      contract_address == SafeGetEvmAddress(event.from_address, resp).value
  IN  TransactionReceiptLoop(locals, Answered(issued, Len(issued), resp),
                             Append(locals.logs, ReceiptLog(event, contract_address)))

(***************************************************************************)
(* client/mod.rs: filter_starknet_into_eth_txs                             *)
(***************************************************************************)
\* every task of a join_all has produced its output
AllComplete(outcomes) == \A i \in 1..Len(outcomes) : outcomes[i].kind # "pending"

RECURSIVE FilterMapOk(_)
\* .into_iter().filter_map(|transaction| transaction.ok()).collect()
FilterMapOk(outcomes) ==
  IF outcomes = <<>> THEN <<>>
  ELSE IF Head(outcomes).kind = "ok"
  THEN <<Head(outcomes).value>> \o FilterMapOk(Tail(outcomes))
  ELSE FilterMapOk(Tail(outcomes))

\* BlockTransactions::Full(transactions)
Full(transactions) == [variant |-> "Full", transactions |-> transactions]

\* faulty variant, for sensitivity: the first failed translation fails the whole list
FilterCollectFailFast(outcomes) ==
  IF \E i \in 1..Len(outcomes) : outcomes[i].kind = "err"
  THEN outcomes[CHOOSE i \in 1..Len(outcomes) :
                  /\ outcomes[i].kind = "err"
                  /\ \A j \in 1..(i - 1) : outcomes[j].kind # "err"]
  ELSE Ok(Full(FilterMapOk(outcomes)))

\* what filter_starknet_into_eth_txs returns once join_all has returned
FilterCollect(outcomes) == Ok(Full(FilterMapOk(outcomes)))

\* the transaction to_eth_transaction(client, block_hash, block_number,
\* transaction_index) yields when it succeeds
EthTransaction(tx, block_hash, block_number, transaction_index) ==
  [hash              |-> FeltToH256(tx.transaction_hash),
   block_hash        |-> block_hash,
   block_number      |-> block_number,
   transaction_index |-> transaction_index]

\* filter_starknet_into_eth_txs from its entry to the await of join_all:
\* one translation per transaction is launched
FilterEntry(initial_transactions) ==
  LET outcomes == [i \in 1..Len(initial_transactions) |-> Pending] IN
  IF AllComplete(outcomes)
  THEN Return([outcomes |-> outcomes], <<>>, FilterCollect(outcomes))
  ELSE Step("join_all", [outcomes |-> outcomes], <<>>, Pending)

\* the i-th translation completes; join_all returns with the last one
FilterOnTask(locals, i, outcome) ==
  LET outcomes == [locals.outcomes EXCEPT ![i] = outcome] IN
  IF AllComplete(outcomes)
  THEN Return([outcomes |-> outcomes], <<>>, FilterCollect(outcomes))
  ELSE Step("join_all", [outcomes |-> outcomes], <<>>, Pending)

(***************************************************************************)
(* client/mod.rs: call_view and token_balances                             *)
(***************************************************************************)
\* the provider call call_view issues
CallViewRequest(ethereum_address, calldata, starknet_block_id) ==
  FunctionCall(KakarotAddress, "eth_call",
               <<AddressToFelt(ethereum_address), FeltMax, FeltZero, FeltZero,
                 Felt(Len(calldata))>>
                 \o [i \in 1..Len(calldata) |-> Felt(calldata[i])],
               starknet_block_id)

\* FeltOrFeltArray
FeltSegment(f) == [variant |-> "Felt", felt |-> f]

FeltArraySegment(a) == [variant |-> "FeltArray", array |-> a]

\* faulty variant, for sensitivity: a large element is truncated to its low byte
U8TryFromFeltTruncating(f) == Some(f[32])

\* u8::try_from(felt).ok()
U8TryFromFelt(f) ==
  IF \A i \in 1..31 : f[i] = 0 THEN Some(f[32]) ELSE None

RECURSIVE FeltArrayToBytes(_)
\* felt_array.iter().filter_map(|f| u8::try_from(*f).ok()).collect()
FeltArrayToBytes(felt_array) ==
  IF felt_array = <<>> THEN <<>>
  ELSE LET byte == U8TryFromFelt(Head(felt_array)) IN
       IF byte.some THEN <<byte.value>> \o FeltArrayToBytes(Tail(felt_array))
       ELSE FeltArrayToBytes(Tail(felt_array))

\* faulty variant, for sensitivity: a scalar first segment yields an empty byte string
CallViewResultEmptyOnScalar(resp) ==
  IF resp.kind = "err" THEN Err(resp.error)
  ELSE LET segmented_result == resp.value.decoded IN
       IF segmented_result.kind = "err" THEN segmented_result
       ELSE IF segmented_result.value = <<>>
       THEN Err("Cannot parse and decode last argument of Kakarot call")
       ELSE LET return_data == segmented_result.value[1] IN
            IF return_data.variant = "FeltArray"
            THEN Ok(FeltArrayToBytes(return_data.array))
            ELSE Ok(<<>>)

\* call_view after its provider call was answered by resp.  The answer of
\* the provider is given by what helpers::decode_eth_call_return makes of
\* it: a decode error or the list of segments
CallViewResult(resp) ==
  IF resp.kind = "err" THEN Err(resp.error)
  ELSE LET segmented_result == resp.value.decoded IN
       IF segmented_result.kind = "err" THEN segmented_result
       ELSE IF segmented_result.value = <<>>
       THEN Err("Cannot parse and decode last argument of Kakarot call")
       ELSE LET return_data == segmented_result.value[1] IN
            IF return_data.variant = "FeltArray"
            THEN Ok(FeltArrayToBytes(return_data.array))
            ELSE Err("Cannot parse and decode the return data of Kakarot call")

\* call_view from its entry to the await of the eth_call
CallViewEntry(ethereum_address, calldata, starknet_block_id) ==
  Step("eth_call", NoLoc,
       <<Issued(CallViewRequest(ethereum_address, calldata, starknet_block_id))>>,
       Pending)

\* call_view from the answer to the eth_call to its return
CallViewOnAnswer(issued, resp) ==
  Return(NoLoc, Answered(issued, 1, resp), CallViewResult(resp))

RECURSIVE HexEncode(_)
\* hex::encode
HexEncode(bytes) ==
  IF bytes = <<>> THEN <<>>
  ELSE <<DigitChars[(Head(bytes) \div 16) + 1], DigitChars[(Head(bytes) % 16) + 1]>>
         \o HexEncode(Tail(bytes))

\* Bytes::to_string (reth_primitives): 0x and the hexadecimal digits
BytesToString(bytes) == <<"0", "x">> \o HexEncode(bytes)

RECURSIVE StripZeroChars(_)
StripZeroChars(chars) ==
  IF chars = <<>> THEN <<>>
  ELSE IF Head(chars) = "0" THEN StripZeroChars(Tail(chars)) ELSE chars

RECURSIVE HexDecode(_)
\* the bytes of an even number of hexadecimal digits
HexDecode(chars) ==
  IF chars = <<>> THEN <<>>
  ELSE <<DigitValue(chars[1]) * 16 + DigitValue(chars[2])>>
         \o HexDecode(SubSeq(chars, 3, Len(chars)))

\* the most hexadecimal digits a U256 holds
U256HexDigits == 64

\* U256::from_str_radix(chars, 16) (ruint), as the 32 bytes of the value
U256FromStrRadix16(chars) ==
  IF \E i \in 1..Len(chars) : DigitValue(chars[i]) >= 16
  THEN Err("invalid digit")
  ELSE LET digits == StripZeroChars(chars) IN
       IF Len(digits) > U256HexDigits THEN Err("the value is too large to fit the target type")
       ELSE Ok(PadTo(HexDecode(IF Len(digits) % 2 = 1 THEN <<"0">> \o digits
                               ELSE digits), 32))

\* one entry of the TokenBalances a batch returns
TokenBalance(contract_address, token_balance, error) ==
  [contract_address |-> contract_address,
   token_balance    |-> token_balance,
   error            |-> error]

\* the map over the outputs of join_all in token_balances: the balance of a
\* successful call is parsed and unwrapped
TokenBalancesCollect(address, outcomes) ==
  LET parsed(i) == U256FromStrRadix16(BytesToString(outcomes[i].value)) IN
  IF \E i \in 1..Len(outcomes) : outcomes[i].kind = "ok" /\ parsed(i).kind = "err"
  THEN Panic("called Result::unwrap() on an Err value")
  ELSE Ok([address |-> address,
           token_balances |->
             [i \in 1..Len(outcomes) |->
                IF outcomes[i].kind = "ok"
                THEN TokenBalance(address, Some(parsed(i).value), None)
                ELSE TokenBalance(address, None,
                       Some(<<"kakarot_getTokenBalances Error: ", outcomes[i].error>>))]])

\* token_balances from its entry to the await of join_all: the entrypoint
\* and the address are converted, then one call_view per contract is launched
\* at the latest block.  conversion is what keccak256(..).try_into() and
\* FieldElement::from_str(..) yield
TokenBalancesEntry(address, contract_addresses, conversion) ==
  IF conversion.entrypoint.kind = "err"
  THEN Return(NoLoc, <<>>, conversion.entrypoint)
  ELSE IF conversion.felt_address.kind = "err"
  THEN Return(NoLoc, <<>>, Err("Failed to convert address to FieldElement"))
  ELSE LET calldata == VecFeltToBytes(<<conversion.entrypoint.value,
                                        conversion.felt_address.value>>)
           issued   == [i \in 1..Len(contract_addresses) |->
                          Issued(CallViewRequest(contract_addresses[i], calldata, Latest))]
           outcomes == [i \in 1..Len(contract_addresses) |-> Pending]
       IN  IF AllComplete(outcomes)
           THEN Return([outcomes |-> outcomes], issued,
                       TokenBalancesCollect(address, outcomes))
           ELSE Step("join_all", [outcomes |-> outcomes], issued, Pending)

\* the i-th call_view completes; join_all returns with the last one and the
\* entries are collected
TokenBalancesOnAnswer(address, locals, issued, i, resp) ==
  LET outcomes == [locals.outcomes EXCEPT ![i] = CallViewResult(resp)]
      answered == Answered(issued, i, resp)
  IN  IF AllComplete(outcomes)
      THEN Return([outcomes |-> outcomes], answered,
                  TokenBalancesCollect(address, outcomes))
      ELSE Step("join_all", [outcomes |-> outcomes], answered, Pending)

(***************************************************************************)
(* client/mod.rs: get_code, nonce and balance                              *)
(***************************************************************************)
\* the provider call get_code issues for the bytecode of an account
BytecodeRequest(starknet_contract_address, starknet_block_id) ==
  FunctionCall(starknet_contract_address, "bytecode", <<>>, starknet_block_id)

\* get_code from its entry to the await of compute_starknet_address
GetCodeEntry(ethereum_address, starknet_block_id) ==
  Step("compute_starknet_address", NoLoc,
       <<Issued(FunctionCall(KakarotAddress, "compute_starknet_address",
                             <<AddressToFelt(ethereum_address)>>,
                             starknet_block_id))>>,
       Pending)

\* faulty variant, for sensitivity: the bytecode is read at the latest block
GetCodeOnAddressAtLatest(starknet_block_id, issued, resp) ==
  IF resp.kind = "err" THEN Return(NoLoc, Answered(issued, 1, resp), Err(resp.error))
  ELSE IF Len(resp.value) # 1
  THEN Return(NoLoc, Answered(issued, 1, resp),
              Err("Kakarot get_code: starknet_contract_address is empty"))
  ELSE Step("bytecode", [starknet_contract_address |-> resp.value[1]],
            Append(Answered(issued, 1, resp),
                   Issued(BytecodeRequest(resp.value[1], Latest))),
            Pending)

\* get_code from the answer to compute_starknet_address to the await of
\* bytecode: the answer must hold exactly one element
GetCodeOnAddress(starknet_block_id, issued, resp) ==
  IF resp.kind = "err" THEN Return(NoLoc, Answered(issued, 1, resp), Err(resp.error))
  ELSE IF Len(resp.value) # 1
  THEN Return(NoLoc, Answered(issued, 1, resp),
              Err("Kakarot get_code: starknet_contract_address is empty"))
  ELSE Step("bytecode", [starknet_contract_address |-> resp.value[1]],
            Append(Answered(issued, 1, resp),
                   Issued(BytecodeRequest(resp.value[1], starknet_block_id))),
            Pending)

\* get_code from the answer to bytecode to its return
GetCodeOnBytecode(locals, issued, resp) ==
  Return(locals, Answered(issued, 2, resp),
         IF resp.kind = "err" THEN Err(resp.error)
         ELSE Ok(FlattenFelts(resp.value)))

\* starknet_provider.get_nonce(block_id, starknet_address)
GetNonceRequest(block_id, starknet_address) ==
  [method |-> "get_nonce", block_id |-> block_id, contract_address |-> starknet_address]

\* Felt252Wrapper -> U256: the 32 big-endian bytes
FeltToU256(f) == FeltToBytesBe(f)

\* nonce from its entry to the await of compute_starknet_address
NonceEntry(ethereum_address, block_id) ==
  Step("compute_starknet_address", NoLoc,
       <<Issued(ComputeStarknetAddressRequest(ethereum_address, block_id))>>,
       Pending)

\* nonce from the answer to compute_starknet_address to the await of
\* get_nonce
NonceOnAddress(block_id, issued, resp) ==
  LET starknet_address == ComputeStarknetAddress(resp) IN
  IF starknet_address.kind = "err"
  THEN Return(NoLoc, Answered(issued, 1, resp), starknet_address)
  ELSE Step("get_nonce", [starknet_address |-> starknet_address.value],
            Append(Answered(issued, 1, resp),
                   Issued(GetNonceRequest(block_id, starknet_address.value))),
            Pending)

\* nonce from the answer to get_nonce to its return
NonceOnNonce(locals, issued, resp) ==
  Return(locals, Answered(issued, 2, resp),
         IF resp.kind = "err" THEN Err(resp.error)
         ELSE Ok(FeltToU256(resp.value)))

\* constants::STARKNET_NATIVE_TOKEN, the contract of the native token
StarknetNativeToken == Zeros(29) \o <<4, 157, 54>>

\* the provider call balance issues
BalanceOfRequest(starknet_address, block_id) ==
  FunctionCall(StarknetNativeToken, "balanceOf", <<starknet_address>>, block_id)

\* balance from its entry to the await of compute_starknet_address
BalanceEntry(ethereum_address, block_id) ==
  Step("compute_starknet_address", NoLoc,
       <<Issued(ComputeStarknetAddressRequest(ethereum_address, block_id))>>,
       Pending)

\* balance from the answer to compute_starknet_address to the await of
\* balanceOf
BalanceOnAddress(block_id, issued, resp) ==
  LET starknet_address == ComputeStarknetAddress(resp) IN
  IF starknet_address.kind = "err"
  THEN Return(NoLoc, Answered(issued, 1, resp), starknet_address)
  ELSE Step("balance_of", [starknet_address |-> starknet_address.value],
            Append(Answered(issued, 1, resp),
                   Issued(BalanceOfRequest(starknet_address.value, block_id))),
            Pending)

\* U256::from_be_bytes of the 32 bytes of a field element
U256FromBeBytes(bytes) == bytes

\* balance from the answer to balanceOf to its return
BalanceOnBalance(locals, issued, resp) ==
  Return(locals, Answered(issued, 2, resp),
         IF resp.kind = "err" THEN Err(resp.error)
         ELSE IF resp.value = <<>>
         THEN Err("Kakarot Core: Failed to get native token balance")
         ELSE Ok(U256FromBeBytes(FeltToBytesBe(resp.value[1]))))

(***************************************************************************)
(* client/mod.rs: estimate_gas                                             *)
(***************************************************************************)
\* estimate_gas: the body is todo!(), which panics when it is reached
EstimateGas(call_request, block_number) == Panic("not yet implemented")

(***************************************************************************)
(* client/mod.rs: transaction_by_hash and                                  *)
(* transaction_by_block_id_and_index                                       *)
(***************************************************************************)
\* faulty variant, for sensitivity: every confirmed receipt supplies the block
ReceiptBlockOfAnyReceipt(tx_receipt) ==
  IF tx_receipt.variant = "Receipt"
  THEN [block_hash   |-> Some(FeltToH256(tx_receipt.block_hash)),
        block_number |-> Some(U256From(tx_receipt.block_number))]
  ELSE [block_hash |-> None, block_number |-> None]

\* the match on tx_receipt: the block hash and number handed to
\* to_eth_transaction
ReceiptBlock(tx_receipt) ==
  IF IsInvokeReceipt(tx_receipt)
  THEN [block_hash   |-> Some(FeltToH256(tx_receipt.block_hash)),
        block_number |-> Some(U256From(tx_receipt.block_number))]
  ELSE [block_hash |-> None, block_number |-> None]

\* transaction_by_hash from its entry to the await of
\* get_transaction_by_hash
TransactionByHashEntry(hash) ==
  LET felt == H256ToFelt(hash) IN
  IF felt.kind = "err" THEN Return(NoLoc, <<>>, felt)
  ELSE Step("get_transaction_by_hash",
            [hash |-> felt.value, transaction |-> None, translation |-> None],
            <<Issued(GetTransactionByHashRequest(felt.value))>>,
            Pending)

\* transaction_by_hash from the answer to get_transaction_by_hash to the
\* await of get_transaction_receipt
TransactionByHashOnTransaction(locals, issued, resp) ==
  LET answered == Answered(issued, 1, resp) IN
  IF resp.kind = "err" THEN Return(locals, answered, Err(resp.error))
  ELSE Step("get_transaction_receipt",
            [locals EXCEPT !.transaction = Some(resp.value)],
            Append(answered, Issued(GetTransactionReceiptRequest(locals.hash))),
            Pending)

\* transaction_by_hash from the answer to get_transaction_receipt to the
\* await of to_eth_transaction(self, block_hash, block_num, None)
TransactionByHashOnReceipt(locals, issued, resp) ==
  LET answered == Answered(issued, 2, resp) IN
  IF resp.kind = "err" THEN Return(locals, answered, Err(resp.error))
  ELSE LET block == ReceiptBlock(resp.value) IN
       Step("to_eth_transaction",
            [locals EXCEPT !.translation =
               Some([block_hash        |-> block.block_hash,
                     block_number      |-> block.block_number,
                     transaction_index |-> None])],
            answered, Pending)

\* the provider call get_transaction_by_block_id_and_index(block_id, index)
GetTransactionByBlockIdAndIndexRequest(block_id, index) ==
  [method   |-> "get_transaction_by_block_id_and_index",
   block_id |-> block_id,
   index    |-> index]

\* transaction_by_block_id_and_index from its entry to the await of
\* get_transaction_by_block_id_and_index
TransactionByIndexEntry(block_id, tx_index) ==
  Step("get_transaction_by_block_id_and_index",
       [hash |-> None, transaction |-> None, translation |-> None],
       <<Issued(GetTransactionByBlockIdAndIndexRequest(block_id, tx_index))>>,
       Pending)

\* transaction_by_block_id_and_index from the answer of the provider to the
\* await of get_transaction_receipt; tx_hash is what
\* StarknetTransaction::transaction_hash makes of the transaction
TransactionByIndexOnTransaction(locals, issued, resp, tx_hash) ==
  LET answered == Answered(issued, 1, resp) IN
  IF resp.kind = "err" THEN Return(locals, answered, Err(resp.error))
  ELSE IF tx_hash.kind = "err" THEN Return(locals, answered, tx_hash)
  ELSE Step("get_transaction_receipt",
            [locals EXCEPT !.hash = Some(tx_hash.value),
                           !.transaction = Some(resp.value)],
            Append(answered, Issued(GetTransactionReceiptRequest(tx_hash.value))),
            Pending)

\* transaction_by_block_id_and_index from the answer to
\* get_transaction_receipt to the await of
\* to_eth_transaction(self, block_hash, block_num, Some(index))
TransactionByIndexOnReceipt(locals, issued, resp, tx_index) ==
  LET answered == Answered(issued, 2, resp) IN
  IF resp.kind = "err" THEN Return(locals, answered, Err(resp.error))
  ELSE LET block == ReceiptBlock(resp.value) IN
       Step("to_eth_transaction",
            [locals EXCEPT !.translation =
               Some([block_hash        |-> block.block_hash,
                     block_number      |-> block.block_number,
                     transaction_index |-> Some(U256From(tx_index))])],
            answered, Pending)

(***************************************************************************)
(* Inputs of to_eth_log.                                                   *)
(***************************************************************************)
\* key values: halves that fit 128 bits and values that do not
KeyFelts == {FeltZero, Felt(1), U128Max, TwoPow128, FeltMax}

RECURSIVE SeqsUpTo(_, _)
\* all sequences over S of length at most n
SeqsUpTo(S, n) ==
  IF n = 0 THEN {<<>>}
  ELSE LET shorter == SeqsUpTo(S, n - 1) IN
       shorter \cup {Append(q, x) : q \in {r \in shorter : Len(r) = n - 1}, x \in S}

EventData == {<<>>, <<Felt(65), Felt(66)>>}

Events ==
  [from_address : {KakarotAddress, OtherAddress},
   keys         : SeqsUpTo(KeyFelts, MaxKeys),
   data         : EventData]

LogContexts ==
  {[block_hash |-> None, block_number |-> None, transaction_hash |-> None,
    log_index |-> None, transaction_index |-> None],
   [block_hash |-> Some(WideFelt), block_number |-> Some(7),
    transaction_hash |-> Some(Felt(513)), log_index |-> Some(0),
    transaction_index |-> Some(1)]}

(***************************************************************************)
(* Inputs of the other handlers and answers of the provider.               *)
(***************************************************************************)
\* most events in a receipt
MaxEvents == 2

\* most transactions in a block handed to filter_starknet_into_eth_txs
MaxTxs == 3

\* most token contracts in a batch
MaxTokens == 3

\* largest block count asked of fee_history
MaxBlockCount == 12

\* errors the provider reports
ProviderErrors == {"provider: request timed out", "provider: contract not found"}

\* answers of the provider to call(request, block_id)
FeltAnswers ==
  {Err(e) : e \in ProviderErrors}
    \cup {Ok(<<>>), Ok(<<WideFelt>>), Ok(<<FeltMax, Felt(1)>>)}

\* native account ids
NativeIds == {WideFelt, FeltMax, Felt(513)}

\* StarknetBlockId values
BlockIds == {Latest, "pending", "number 7"}

\* BlockNumberOrTag values
NewestBlocks ==
  {[tag |-> "number", number |-> n] : n \in {0, 4, 12, 100}}
    \cup {[tag |-> t, number |-> 0] : t \in {"earliest", "latest"}}

\* answers of the provider to block_number()
BlockNumberAnswers == {Err("provider: request timed out"), Ok(0), Ok(50)}

\* raw signed transactions: empty, undecodable, with a signature that
\* recovers no signer, and well-formed ones
Payloads == {<<>>, <<255>>, <<1, 7>>, <<2, 7>>, <<2, 0>>, <<3, 9>>}

\* answers of the provider to add_invoke_transaction
AddInvokeAnswers ==
  {Err(e) : e \in ProviderErrors}
    \cup {Ok([transaction_hash |-> h]) : h \in {WideFelt, Felt(513)}}

\* transaction hashes asked of transaction_receipt; the last one is no
\* field element
ReceiptHashes == {Felt(513), Repeat(255, 32)}

\* StarknetTransactionStatus
Statuses == {"Rejected", "Pending", "AcceptedOnL1", "AcceptedOnL2"}

\* an event of the interpreter: two topic keys and the emitter's address
BridgeEvent ==
  [from_address |-> KakarotAddress,
   keys         |-> <<Felt(1), Felt(2), AddressToFelt(SignerB)>>,
   data         |-> <<Felt(65)>>]

\* an event of another contract
ForeignEvent ==
  [from_address |-> OtherAddress,
   keys         |-> <<FeltMax, FeltMax>>,
   data         |-> <<>>]

\* an event of the interpreter without keys
KeylessEvent ==
  [from_address |-> KakarotAddress, keys |-> <<>>, data |-> <<Felt(66)>>]

ReceiptEvents == {BridgeEvent, ForeignEvent, KeylessEvent}

\* the kinds of TransactionReceipt other than Invoke
OtherReceiptTypes == {"L1Handler", "Declare", "Deploy", "DeployAccount"}

\* the receipts the provider may return for a transaction
Receipts(transaction_hash) ==
  [variant          : {"Receipt"},
   type             : {"Invoke"},
   transaction_hash : {transaction_hash},
   status           : Statuses,
   block_hash       : {WideFelt},
   block_number     : {7},
   events           : SeqsUpTo(ReceiptEvents, MaxEvents)]
    \cup
  [variant          : {"Receipt"},
   type             : OtherReceiptTypes,
   transaction_hash : {transaction_hash},
   status           : {"AcceptedOnL2"},
   block_hash       : {WideFelt},
   block_number     : {7},
   events           : {<<BridgeEvent>>}]
    \cup
  [variant          : {"PendingReceipt"},
   type             : {"Invoke"} \cup OtherReceiptTypes,
   transaction_hash : {transaction_hash},
   status           : {"Pending"},
   block_hash       : {FeltZero},
   block_number     : {0},
   events           : {<<BridgeEvent>>}]

\* answers of the provider to get_transaction_receipt
ReceiptAnswers(transaction_hash) ==
  {Err(e) : e \in ProviderErrors} \cup {Ok(r) : r \in Receipts(transaction_hash)}

\* a native transaction; only some kinds have a sender address
StarknetTx(type, n, sender_address) ==
  [type |-> type, transaction_hash |-> Felt(n), sender_address |-> sender_address]

\* answers of the provider to get_transaction_by_hash
TransactionAnswers ==
  {Err("provider: request timed out"),
   Ok(StarknetTx("Invoke", 513, Some(WideFelt))),
   Ok(StarknetTx("L1Handler", 513, None))}

\* outcomes of StarknetTransaction::to_eth_transaction inside a receipt
EthTransactionOutcomes ==
  {Err("to_eth_transaction: conversion failed"),
   Ok([from |-> SignerA, to |-> Some(SignerB)])}

\* answers of the provider to get_evm_address for the emitter of an event
EventAddressAnswers == {Err("provider: contract not found"), Ok(<<WideFelt>>)}

\* the transactions of a block
BlockTxs == {StarknetTx("Invoke", n, Some(WideFelt)) : n \in 1..3}

\* the block hash and number a block's transactions are translated with
BlockContexts ==
  {[block_hash |-> None, block_number |-> None],
   [block_hash |-> Some(FeltToH256(WideFelt)), block_number |-> Some(7)]}

\* outcomes of to_eth_transaction for a transaction of a block
TranslationOutcomes(tx, ctx) ==
  {Err("to_eth_transaction: conversion failed"),
   Ok(EthTransaction(tx, ctx.block_hash, ctx.block_number, None))}

\* token contracts and the batches of the model: 0 to MaxTokens contracts
TokenA == Repeat(161, 20)

TokenB == Repeat(178, 20)

TokenBatches ==
  {[i \in 1..n |-> IF i % 2 = 1 THEN TokenA ELSE TokenB] : n \in 0..MaxTokens}

\* what the conversions at the head of token_balances yield
Conversions ==
  {[entrypoint |-> Err("Felt252Wrapper: hash is not a field element"),
    felt_address |-> Ok(AddressToFelt(SignerA))],
   [entrypoint |-> Ok(Felt(28832)), felt_address |-> Err("invalid character")],
   [entrypoint |-> Ok(Felt(28832)), felt_address |-> Ok(AddressToFelt(SignerA))]}

\* answers of the provider to eth_call, each with what
\* decode_eth_call_return makes of it
EthCallAnswers ==
  {Err("provider: request timed out"),
   Ok([decoded |-> Err("decode_eth_call_return: malformed return data")]),
   Ok([decoded |-> Ok(<<>>)]),
   Ok([decoded |-> Ok(<<FeltSegment(Felt(5))>>)]),
   Ok([decoded |-> Ok(<<FeltArraySegment(<<Felt(65), Felt(66)>>)>>)]),
   Ok([decoded |-> Ok(<<FeltArraySegment([i \in 1..33 |-> Felt(1)])>>)]),
   Ok([decoded |-> Ok(<<FeltArraySegment(<<>>), FeltSegment(Felt(5))>>)]),
   Ok([decoded |-> Ok(<<FeltArraySegment(<<Felt(65), Felt(256), FeltMax, Felt(66),
                                           TwoPow128, FeltZero, Felt(255)>>)>>)])}

\* foreign addresses asked of get_code, nonce, balance and call_view
EthAddresses == {SignerA, SignerB}

\* answers of the provider to get_nonce
NonceAnswers == {Err(e) : e \in ProviderErrors} \cup {Ok(FeltZero), Ok(Felt(7))}

\* calldata passed to call_view
Calldatas == {<<>>, <<65>>, <<112, 160, 130, 49>>, <<0, 255, 0>>}

\* CallRequest values asked of estimate_gas
CallRequests ==
  {[to |-> to, data |-> data] : to \in {None, Some(SignerA)}, data \in Calldatas}

\* the optional BlockId asked of estimate_gas
OptionalBlockIds == {None} \cup {Some(b) : b \in BlockIds}

\* transaction indexes asked of transaction_by_block_id_and_index
TxIndexes == {0, 2}

\* what StarknetTransaction::transaction_hash makes of a transaction
TransactionHashOutcomes(tx) ==
  {Err("StarknetTransaction: no transaction hash"), Ok(tx.transaction_hash)}

\* outcomes of to_eth_transaction for the transaction tx with the block and
\* index of translation
TransactionTranslations(tx, translation) ==
  {Err("to_eth_transaction: conversion failed"),
   Ok(EthTransaction(tx, translation.block_hash, translation.block_number,
                     translation.transaction_index))}

(***************************************************************************)
(* The request in progress.                                                *)
(***************************************************************************)
\* no request has been received yet; a behaviour is the life of one request,
\* which shares nothing with the requests before or after it
Idle == op = "none"

Init ==
  /\ op = "none"
  /\ pc = "done"
  /\ arg = NoArg
  /\ loc = NoLoc
  /\ calls = <<>>
  /\ result = Pending

\* the handler op is suspended at the await named p
At(o, p) == op = o /\ pc = p

\* a request for handler o with arguments a arrives and runs to step
Receive(o, a, step) ==
  /\ op' = o
  /\ arg' = a
  /\ pc' = step.pc
  /\ loc' = step.loc
  /\ calls' = step.calls
  /\ result' = step.result

\* the suspended handler resumes and runs to step
Resume(step) ==
  /\ pc' = step.pc
  /\ loc' = step.loc
  /\ calls' = step.calls
  /\ result' = step.result
  /\ UNCHANGED <<op, arg>>

\* a caller reconstructs one event
ToEthLogCall ==
  /\ Idle
  /\ \E event \in Events, ctx \in LogContexts :
       Receive("to_eth_log", [event |-> event, ctx |-> ctx],
               Return(NoLoc, <<>>, ToEthLog(event, KakarotAddress, ctx)))

\* safe_get_evm_address: one provider call, then the address
SafeGetEvmAddressCall ==
  /\ Idle
  /\ \E starknet_address \in NativeIds, block_id \in BlockIds, resp \in FeltAnswers :
       Receive("safe_get_evm_address",
               [starknet_address |-> starknet_address, starknet_block_id |-> block_id],
               Return(NoLoc,
                      <<[req  |-> GetEvmAddressRequest(starknet_address, block_id),
                         resp |-> resp]>>,
                      SafeGetEvmAddress(starknet_address, resp)))

\* fee_history: the provider is asked for the block number only for a tag
FeeHistoryCall ==
  /\ Idle
  /\ \E block_count \in 0..MaxBlockCount, newest_block \in NewestBlocks,
        reward_percentiles \in {None, Some(<<25, 75>>)} :
       \E resp \in IF FeeHistoryNeedsBlockNumber(newest_block)
                   THEN BlockNumberAnswers ELSE {Pending} :
         Receive("fee_history",
                 [block_count        |-> block_count,
                  newest_block       |-> newest_block,
                  reward_percentiles |-> reward_percentiles],
                 Return(NoLoc,
                        IF FeeHistoryNeedsBlockNumber(newest_block)
                        THEN <<[req |-> BlockNumberRequest, resp |-> resp]>>
                        ELSE <<>>,
                        FeeHistory(block_count, newest_block, resp)))

\* send_transaction is called with a raw payload
SendTransactionCall ==
  /\ Idle
  /\ \E bytes \in Payloads :
       Receive("send_transaction", [bytes |-> bytes], SendTransactionEntry(bytes))

\* the provider answers compute_starknet_address
SendTransactionAddressAnswer ==
  /\ At("send_transaction", "compute_starknet_address")
  /\ \E resp \in FeltAnswers :
       Resume(SendTransactionOnAddress(arg.bytes, loc, calls, resp))

\* the provider answers add_invoke_transaction
SendTransactionSubmitAnswer ==
  /\ At("send_transaction", "add_invoke_transaction")
  /\ \E resp \in AddInvokeAnswers :
       Resume(SendTransactionOnSubmitted(loc, calls, resp))

\* transaction_receipt is called with a hash
TransactionReceiptCall ==
  /\ Idle
  /\ \E hash \in ReceiptHashes :
       Receive("transaction_receipt", [hash |-> hash], TransactionReceiptEntry(hash))

\* the provider answers get_transaction_receipt
TransactionReceiptReceiptAnswer ==
  /\ At("transaction_receipt", "get_transaction_receipt")
  /\ \E resp \in ReceiptAnswers(calls[1].req.transaction_hash) :
       Resume(TransactionReceiptOnReceipt(loc, calls, resp))

\* the provider answers get_transaction_by_hash
TransactionReceiptTransactionAnswer ==
  /\ At("transaction_receipt", "get_transaction_by_hash")
  /\ \E resp \in TransactionAnswers :
       Resume(TransactionReceiptOnTransaction(loc, calls, resp))

\* the provider answers get_evm_address for the sender
TransactionReceiptSenderAnswer ==
  /\ At("transaction_receipt", "sender_evm_address")
  /\ \E resp \in FeltAnswers :
       Resume(TransactionReceiptOnSender(loc, calls, resp))

\* to_eth_transaction completes
TransactionReceiptEthTransactionDone ==
  /\ At("transaction_receipt", "to_eth_transaction")
  /\ \E eth_tx \in EthTransactionOutcomes :
       Resume(TransactionReceiptOnEthTransaction(loc, calls, eth_tx))

\* the provider answers get_evm_address for the emitter of the next event
TransactionReceiptEventAnswer ==
  /\ At("transaction_receipt", "event_evm_address")
  /\ \E resp \in EventAddressAnswers :
       Resume(TransactionReceiptOnEventAddress(loc, calls, resp))

\* filter_starknet_into_eth_txs is called with the transactions of a block
FilterCall ==
  /\ Idle
  /\ \E txs \in SeqsUpTo(BlockTxs, MaxTxs), ctx \in BlockContexts :
       Receive("filter_starknet_into_eth_txs",
               [initial_transactions |-> txs,
                block_hash           |-> ctx.block_hash,
                block_number         |-> ctx.block_number],
               FilterEntry(txs))

\* one of the translations join_all is polling completes
FilterTaskDone ==
  /\ At("filter_starknet_into_eth_txs", "join_all")
  /\ \E i \in 1..Len(loc.outcomes) :
       /\ loc.outcomes[i].kind = "pending"
       /\ \E outcome \in TranslationOutcomes(arg.initial_transactions[i], arg) :
            Resume(FilterOnTask(loc, i, outcome))

\* token_balances is called with a batch of token contracts
TokenBalancesCall ==
  /\ Idle
  /\ \E batch \in TokenBatches, conversion \in Conversions :
       Receive("token_balances",
               [address            |-> SignerA,
                contract_addresses |-> batch,
                conversion         |-> conversion],
               TokenBalancesEntry(SignerA, batch, conversion))

\* the provider answers the eth_call of one of the call_views
TokenBalancesAnswer ==
  /\ At("token_balances", "join_all")
  /\ \E i \in 1..Len(loc.outcomes) :
       /\ loc.outcomes[i].kind = "pending"
       /\ \E resp \in EthCallAnswers :
            Resume(TokenBalancesOnAnswer(arg.address, loc, calls, i, resp))

\* get_code is called for an address at a block
GetCodeCall ==
  /\ Idle
  /\ \E ethereum_address \in EthAddresses, block_id \in BlockIds :
       Receive("get_code",
               [ethereum_address |-> ethereum_address, starknet_block_id |-> block_id],
               GetCodeEntry(ethereum_address, block_id))

\* the provider answers the compute_starknet_address of get_code
GetCodeAddressAnswer ==
  /\ At("get_code", "compute_starknet_address")
  /\ \E resp \in FeltAnswers :
       Resume(GetCodeOnAddress(arg.starknet_block_id, calls, resp))

\* the provider answers bytecode
GetCodeBytecodeAnswer ==
  /\ At("get_code", "bytecode")
  /\ \E resp \in FeltAnswers :
       Resume(GetCodeOnBytecode(loc, calls, resp))

\* nonce is called for an address at a block
NonceCall ==
  /\ Idle
  /\ \E ethereum_address \in EthAddresses, block_id \in BlockIds :
       Receive("nonce",
               [ethereum_address |-> ethereum_address, block_id |-> block_id],
               NonceEntry(ethereum_address, block_id))

\* the provider answers the compute_starknet_address of nonce
NonceAddressAnswer ==
  /\ At("nonce", "compute_starknet_address")
  /\ \E resp \in FeltAnswers :
       Resume(NonceOnAddress(arg.block_id, calls, resp))

\* the provider answers get_nonce
NonceNonceAnswer ==
  /\ At("nonce", "get_nonce")
  /\ \E resp \in NonceAnswers :
       Resume(NonceOnNonce(loc, calls, resp))

\* balance is called for an address at a block
BalanceCall ==
  /\ Idle
  /\ \E ethereum_address \in EthAddresses, block_id \in BlockIds :
       Receive("balance",
               [ethereum_address |-> ethereum_address, block_id |-> block_id],
               BalanceEntry(ethereum_address, block_id))

\* the provider answers the compute_starknet_address of balance
BalanceAddressAnswer ==
  /\ At("balance", "compute_starknet_address")
  /\ \E resp \in FeltAnswers :
       Resume(BalanceOnAddress(arg.block_id, calls, resp))

\* the provider answers balanceOf
BalanceBalanceAnswer ==
  /\ At("balance", "balance_of")
  /\ \E resp \in FeltAnswers :
       Resume(BalanceOnBalance(loc, calls, resp))

\* call_view is called for a contract, with calldata, at a block
CallViewCall ==
  /\ Idle
  /\ \E ethereum_address \in EthAddresses, calldata \in Calldatas, block_id \in BlockIds :
       Receive("call_view",
               [ethereum_address  |-> ethereum_address,
                calldata          |-> calldata,
                starknet_block_id |-> block_id],
               CallViewEntry(ethereum_address, calldata, block_id))

\* the provider answers the eth_call of call_view
CallViewAnswer ==
  /\ At("call_view", "eth_call")
  /\ \E resp \in EthCallAnswers :
       Resume(CallViewOnAnswer(calls, resp))

\* estimate_gas is called
EstimateGasCall ==
  /\ Idle
  /\ \E call_request \in CallRequests, block_number \in OptionalBlockIds :
       Receive("estimate_gas",
               [call_request |-> call_request, block_number |-> block_number],
               Return(NoLoc, <<>>, EstimateGas(call_request, block_number)))

\* transaction_by_hash is called with a hash
TransactionByHashCall ==
  /\ Idle
  /\ \E hash \in ReceiptHashes :
       Receive("transaction_by_hash", [hash |-> hash], TransactionByHashEntry(hash))

\* the provider answers the get_transaction_by_hash of transaction_by_hash
TransactionByHashTransactionAnswer ==
  /\ At("transaction_by_hash", "get_transaction_by_hash")
  /\ \E resp \in TransactionAnswers :
       Resume(TransactionByHashOnTransaction(loc, calls, resp))

\* the provider answers the get_transaction_receipt of transaction_by_hash
TransactionByHashReceiptAnswer ==
  /\ At("transaction_by_hash", "get_transaction_receipt")
  /\ \E resp \in ReceiptAnswers(loc.hash) :
       Resume(TransactionByHashOnReceipt(loc, calls, resp))

\* transaction_by_block_id_and_index is called
TransactionByIndexCall ==
  /\ Idle
  /\ \E block_id \in BlockIds, tx_index \in TxIndexes :
       Receive("transaction_by_block_id_and_index",
               [block_id |-> block_id, tx_index |-> tx_index],
               TransactionByIndexEntry(block_id, tx_index))

\* the provider answers get_transaction_by_block_id_and_index
TransactionByIndexTransactionAnswer ==
  /\ At("transaction_by_block_id_and_index", "get_transaction_by_block_id_and_index")
  /\ \E resp \in TransactionAnswers :
       \E tx_hash \in IF resp.kind = "ok" THEN TransactionHashOutcomes(resp.value)
                      ELSE {Pending} :
         Resume(TransactionByIndexOnTransaction(loc, calls, resp, tx_hash))

\* the provider answers the get_transaction_receipt of
\* transaction_by_block_id_and_index
TransactionByIndexReceiptAnswer ==
  /\ At("transaction_by_block_id_and_index", "get_transaction_receipt")
  /\ \E resp \in ReceiptAnswers(loc.hash.value) :
       Resume(TransactionByIndexOnReceipt(loc, calls, resp, arg.tx_index))

\* the to_eth_transaction of transaction_by_hash or of
\* transaction_by_block_id_and_index completes and its outcome is returned
TransactionTranslated ==
  /\ \/ At("transaction_by_hash", "to_eth_transaction")
     \/ At("transaction_by_block_id_and_index", "to_eth_transaction")
  /\ \E eth_transaction \in
          TransactionTranslations(loc.transaction.value, loc.translation.value) :
       Resume(Return(loc, calls, eth_transaction))

Next ==
  \/ ToEthLogCall
  \/ SafeGetEvmAddressCall
  \/ FeeHistoryCall
  \/ SendTransactionCall
  \/ SendTransactionAddressAnswer
  \/ SendTransactionSubmitAnswer
  \/ TransactionReceiptCall
  \/ TransactionReceiptReceiptAnswer
  \/ TransactionReceiptTransactionAnswer
  \/ TransactionReceiptSenderAnswer
  \/ TransactionReceiptEthTransactionDone
  \/ TransactionReceiptEventAnswer
  \/ FilterCall
  \/ FilterTaskDone
  \/ TokenBalancesCall
  \/ TokenBalancesAnswer
  \/ GetCodeCall
  \/ GetCodeAddressAnswer
  \/ GetCodeBytecodeAnswer
  \/ NonceCall
  \/ NonceAddressAnswer
  \/ NonceNonceAnswer
  \/ BalanceCall
  \/ BalanceAddressAnswer
  \/ BalanceBalanceAnswer
  \/ CallViewCall
  \/ CallViewAnswer
  \/ EstimateGasCall
  \/ TransactionByHashCall
  \/ TransactionByHashTransactionAnswer
  \/ TransactionByHashReceiptAnswer
  \/ TransactionByIndexCall
  \/ TransactionByIndexTransactionAnswer
  \/ TransactionByIndexReceiptAnswer
  \/ TransactionTranslated

Spec == Init /\ [][Next]_vars

(***************************************************************************)
(* Properties of to_eth_log.                                               *)
(***************************************************************************)
\* the field element is below 2^128: its 16 high bytes are zero
FitsU128(f) == \A i \in 1..16 : f[i] = 0

\* the keys of the request's event without the last one (the topic keys)
TopicKeys == Front(arg.event.keys)

\* to_eth_log has returned a log
LogReturned == op = "to_eth_log" /\ result.kind = "ok"

\* to_eth_log ran on an interpreter event with an odd number of topic keys
OddTopicKeys ==
  /\ op = "to_eth_log"
  /\ arg.event.from_address = KakarotAddress
  /\ arg.event.keys # <<>>
  /\ Len(TopicKeys) % 2 = 1

\* C1: every log to_eth_log returns has one topic per consecutive pair of
\* topic keys, in the order of the pairs, and the topic of a pair (low, high)
\* of 128-bit values is the 32 bytes of low + high * 2^128: the 16 low
\* bytes of high followed by the 16 low bytes of low.
C1_TopicExact ==
  LogReturned =>
    /\ 2 * Len(result.value.topics) = Len(TopicKeys)
    /\ \A i \in 1..Len(result.value.topics) :
         LET low  == TopicKeys[2 * i - 1]
             high == TopicKeys[2 * i]
         IN  (FitsU128(low) /\ FitsU128(high)) =>
               /\ Len(result.value.topics[i]) = HashLen
               /\ result.value.topics[i] = SubSeq(high, 17, 32) \o SubSeq(low, 17, 32)

\* C1 witness: a log with two different topics, each from a pair of 128-bit
\* halves that differ from each other
C1_Witness ==
  /\ LogReturned
  /\ Len(result.value.topics) = 2
  /\ result.value.topics[1] # result.value.topics[2]
  /\ \A i \in 1..4 : FitsU128(TopicKeys[i])
  /\ TopicKeys[1] # TopicKeys[2]

TokenBatchEnded ==
  /\ op = "token_balances"
  /\ pc = "done"
  /\ arg.conversion.entrypoint.kind = "ok"
  /\ arg.conversion.felt_address.kind = "ok"

\* C2: once the conversions have succeeded, a batch of N contracts ends in
\* Ok with N entries, the i-th being the outcome of the i-th call_view: an
\* error and no balance when it failed, a balance and no error when it
\* succeeded; no lookup fails or aborts the batch.
C2_BatchIsolation ==
  TokenBatchEnded =>
    /\ result.kind = "ok"
    /\ Len(result.value.token_balances) = Len(arg.contract_addresses)
    /\ \A i \in 1..Len(arg.contract_addresses) :
         LET entry == result.value.token_balances[i] IN
         /\ loc.outcomes[i].kind = "err" =>
              entry.error.some /\ ~entry.token_balance.some
         /\ loc.outcomes[i].kind = "ok" =>
              entry.token_balance.some /\ ~entry.error.some

(***************************************************************************)
(* Properties of filter_starknet_into_eth_txs.                             *)
(***************************************************************************)
\* the positions of the translations that succeeded
Translated == {i \in 1..Len(loc.outcomes) : loc.outcomes[i].kind = "ok"}

\* C3: filter_starknet_into_eth_txs launches one translation per
\* transaction, returns exactly when all of them have completed, never
\* returns an error, and returns Full(list) where list holds the translated
\* transactions of the successful translations in their original order.
C3_FilterIsolation ==
  op = "filter_starknet_into_eth_txs" =>
    /\ Len(loc.outcomes) = Len(arg.initial_transactions)
    /\ (pc = "done") = AllComplete(loc.outcomes)
    /\ result.kind \in {"pending", "ok"}
    /\ (result.kind = "ok") = (pc = "done")
    /\ pc = "done" =>
         /\ result.value.variant = "Full"
         /\ Len(result.value.transactions) = Cardinality(Translated)
         /\ \A i \in Translated :
              result.value.transactions[Cardinality({j \in Translated : j <= i})]
                = loc.outcomes[i].value

\* C3 witness: of three different transactions the second one fails and the
\* other two are returned
C3_Witness ==
  /\ op = "filter_starknet_into_eth_txs"
  /\ pc = "done"
  /\ Len(arg.initial_transactions) = 3
  /\ arg.initial_transactions[1] # arg.initial_transactions[3]
  /\ Translated = {1, 3}
  /\ result.value.transactions = <<loc.outcomes[1].value, loc.outcomes[3].value>>

(***************************************************************************)
(* Properties of safe_get_evm_address.                                     *)
(***************************************************************************)
\* bytes [12, 32) of the 32 big-endian bytes of a field element
LowTwentyBytes(f) == [i \in 1..20 |-> f[12 + i]]

\* the lookup of get_evm_address failed: the provider reported an error or
\* returned no element
LookupFailed(resp) == resp.kind = "err" \/ resp.value = <<>>

\* C4: safe_get_evm_address always returns an address: bytes [12, 32) of
\* the native id when the lookup fails, bytes [12, 32) of the first element
\* the lookup returns when it succeeds.
C4_SafeAddressTotal ==
  op = "safe_get_evm_address" =>
    /\ result.kind = "ok"
    /\ Len(result.value) = AddressLen
    /\ LookupFailed(calls[1].resp) =>
         result.value = LowTwentyBytes(arg.starknet_address)
    /\ ~LookupFailed(calls[1].resp) =>
         result.value = LowTwentyBytes(calls[1].resp.value[1])

\* C4 witness: the provider fails and the address is cut from a native id
\* whose high bytes are not zero
C4_Witness ==
  /\ op = "safe_get_evm_address"
  /\ calls[1].resp.kind = "err"
  /\ arg.starknet_address = WideFelt
  /\ result = Ok([i \in 1..20 |-> 12 + i])

(***************************************************************************)
(* Properties of transaction_receipt.                                      *)
(***************************************************************************)
\* the provider has answered get_transaction_receipt with a receipt
ReceiptArrived ==
  /\ op = "transaction_receipt"
  /\ Len(calls) >= 1
  /\ calls[1].resp.kind = "ok"

\* transaction_receipt has returned a receipt
ReceiptReturned ==
  /\ op = "transaction_receipt"
  /\ result.kind = "ok"
  /\ result.value.some

\* C5: when the provider's receipt is pending or not an invoke receipt,
\* transaction_receipt returns Ok(None) without another provider call; it
\* returns a receipt only for a confirmed invoke receipt.
C5_AbsentReceipt ==
  /\ ReceiptArrived =>
       LET receipt == calls[1].resp.value IN
       (receipt.variant = "PendingReceipt" \/ receipt.type # "Invoke") =>
         /\ pc = "done"
         /\ result = Ok(None)
         /\ Len(calls) = 1
  /\ ReceiptReturned =>
       /\ ReceiptArrived
       /\ calls[1].resp.value.variant = "Receipt"
       /\ calls[1].resp.value.type = "Invoke"

\* C5 witness: a pending invoke receipt that carries an event is answered
\* with Ok(None)
C5_Witness ==
  /\ ReceiptArrived
  /\ calls[1].resp.value.variant = "PendingReceipt"
  /\ calls[1].resp.value.type = "Invoke"
  /\ calls[1].resp.value.events # <<>>
  /\ result = Ok(None)

\* the event is one to_eth_log accepts: emitted by the interpreter, with
\* well-formed keys
IsBridgeEvent(event) ==
  ToEthLog(event, KakarotAddress,
           [block_hash |-> None, block_number |-> None, transaction_hash |-> None,
            log_index |-> None, transaction_index |-> None]).kind = "ok"

\* the positions of the bridge events in the receipt of the provider
BridgeEvents ==
  {i \in 1..Len(loc.receipt.events) : IsBridgeEvent(loc.receipt.events[i])}

\* C6: the logs of a returned receipt are the logs of the well-formed
\* bridge events of the provider's receipt, in their order; events of other
\* contracts and events with malformed keys are skipped.
C6_ForeignEventsSkipped ==
  ReceiptReturned =>
    /\ Len(result.value.value.logs) = Cardinality(BridgeEvents)
    /\ \A i \in BridgeEvents :
         result.value.value.logs[Cardinality({j \in BridgeEvents : j <= i})].data
           = VecFeltToBytes(loc.receipt.events[i].data)

(***************************************************************************)
(* Properties of fee_history.                                              *)
(***************************************************************************)
\* C7: for a numeric newest block and count <= newest, fee_history returns
\* count + 1 base fees, all the fixed base fee, count ratios, all the fixed
\* ratio, oldest_block = newest - count and no reward.
C7_FeeHistoryShape ==
  (/\ op = "fee_history"
   /\ arg.newest_block.tag = "number"
   /\ arg.block_count <= arg.newest_block.number) =>
    /\ result.kind = "ok"
    /\ Len(result.value.base_fee_per_gas) = arg.block_count + 1
    /\ \A i \in 1..Len(result.value.base_fee_per_gas) :
         result.value.base_fee_per_gas[i] = BaseFeePerGas
    /\ Len(result.value.gas_used_ratio) = arg.block_count
    /\ \A i \in 1..Len(result.value.gas_used_ratio) :
         result.value.gas_used_ratio[i] = GasUsedRatio
    /\ result.value.oldest_block = U256From(arg.newest_block.number - arg.block_count)
    /\ result.value.reward = None

(***************************************************************************)
(* Properties of send_transaction.                                         *)
(***************************************************************************)
\* the positions of the add_invoke_transaction calls among the calls issued
SubmitCalls ==
  {i \in 1..Len(calls) : calls[i].req.method = "add_invoke_transaction"}

\* the payload of the request is a well-formed signed transaction whose
\* signer can be recovered
PayloadAccepted ==
  /\ arg.bytes # <<>>
  /\ DecodeTransactionSigned(arg.bytes).kind = "ok"
  /\ RecoverSigner(DecodeTransactionSigned(arg.bytes).value).some

\* C9: add_invoke_transaction is issued only by send_transaction, as its
\* second provider call, for a payload that is not empty, decodes and has a
\* recoverable signer, after compute_starknet_address for that signer at
\* the latest block has returned the sender; a failing step returns its own
\* error and nothing is submitted, and an empty, undecodable or unsigned
\* payload issues no provider call at all.
C9_SubmitAfterChecks ==
  /\ \A i \in SubmitCalls :
       /\ op = "send_transaction"
       /\ i = 2
       /\ PayloadAccepted
       /\ calls[1].req =
            ComputeStarknetAddressRequest(
              RecoverSigner(DecodeTransactionSigned(arg.bytes).value).value, Latest)
       /\ calls[1].resp.kind = "ok"
       /\ calls[1].resp.value # <<>>
       /\ calls[i].req.request.sender_address = calls[1].resp.value[1]
  /\ op = "send_transaction" =>
       /\ arg.bytes = <<>> =>
            /\ calls = <<>>
            /\ result = Err("Kakarot send_transaction: Transaction bytes are empty")
       /\ (arg.bytes # <<>> /\ DecodeTransactionSigned(arg.bytes).kind = "err") =>
            /\ calls = <<>>
            /\ result = Err("Kakarot send_transaction: transaction bytes failed to be decoded")
       /\ (/\ arg.bytes # <<>>
           /\ DecodeTransactionSigned(arg.bytes).kind = "ok"
           /\ ~RecoverSigner(DecodeTransactionSigned(arg.bytes).value).some) =>
            /\ calls = <<>>
            /\ result = Err("Kakarot send_transaction: signature ecrecover failed")
       /\ (Len(calls) >= 1 /\ calls[1].resp.kind = "err") =>
            /\ pc = "done"
            /\ SubmitCalls = {}
            /\ result = Err(calls[1].resp.error)
       /\ (Len(calls) >= 1 /\ calls[1].resp.kind = "ok" /\ calls[1].resp.value = <<>>) =>
            /\ pc = "done"
            /\ SubmitCalls = {}
            /\ result = Err("Kakarot Core: Failed to get Starknet address from Kakarot")

\* C9 witness: the transaction has been submitted after the signer SignerB
\* was resolved at the latest block
C9_Witness ==
  /\ op = "send_transaction"
  /\ SubmitCalls = {2}
  /\ arg.bytes = <<3, 9>>
  /\ calls[1].req.block_id = Latest
  /\ calls[2].req.request.sender_address = WideFelt

\* C10: a send_transaction issues add_invoke_transaction at most once; its
\* failure is returned as the error of the request, and on success the
\* request returns the 32 big-endian bytes of the transaction hash the
\* provider reported.
C10_SubmitOnce ==
  /\ Cardinality(SubmitCalls) <= 1
  /\ \A i \in SubmitCalls :
       /\ calls[i].resp.kind = "err" =>
            /\ pc = "done"
            /\ Len(calls) = i
            /\ result = Err(calls[i].resp.error)
       /\ calls[i].resp.kind = "ok" =>
            /\ pc = "done"
            /\ Len(calls) = i
            /\ result.kind = "ok"
            /\ Len(result.value) = HashLen
            /\ result.value = FeltToBytesBe(calls[i].resp.value.transaction_hash)
       /\ calls[i].resp.kind = "pending" => result = Pending

\* C10 witness: the provider rejected the submission and the request
\* returned that error after a single add_invoke_transaction
C10_Witness ==
  /\ op = "send_transaction"
  /\ SubmitCalls = {2}
  /\ calls[2].resp = Err("provider: contract not found")
  /\ result = Err("provider: contract not found")

(***************************************************************************)
(* Properties of get_code, nonce and balance.                              *)
(***************************************************************************)
\* the handler reads the state of an account of a foreign address
ReadsAccount == op \in {"get_code", "nonce", "balance"}

\* the block id the request was made for
RequestedBlock ==
  IF op = "get_code" THEN arg.starknet_block_id ELSE arg.block_id

\* the native address the second call of the handler is made on
DependentTarget ==
  CASE op = "get_code" -> calls[2].req.contract_address
    [] op = "nonce"    -> calls[2].req.contract_address
    [] OTHER           -> calls[2].req.calldata[1]

\* C11: in get_code, nonce and balance the first provider call is
\* compute_starknet_address for the requested address at the requested
\* block; the dependent call is issued only after it has returned an
\* element, at the same block id and on exactly that element; when the
\* resolution fails or returns nothing the handler returns an error and the
\* dependent call is never issued.
C11_ResolveBeforeUse ==
  ReadsAccount =>
    /\ Len(calls) \in {1, 2}
    /\ calls[1].req.contract_address = KakarotAddress
    /\ calls[1].req.entry_point_selector = "compute_starknet_address"
    /\ calls[1].req.block_id = RequestedBlock
    /\ Len(calls) = 2 =>
         /\ calls[1].resp.kind = "ok"
         /\ calls[1].resp.value # <<>>
         /\ calls[2].req.block_id = calls[1].req.block_id
         /\ DependentTarget = calls[1].resp.value[1]
         /\ calls[2].req.method =
              (IF op = "nonce" THEN "get_nonce" ELSE "call")
    /\ (calls[1].resp.kind = "err" \/
        (calls[1].resp.kind = "ok" /\ calls[1].resp.value = <<>>)) =>
         /\ Len(calls) = 1
         /\ pc = "done"
         /\ result.kind = "err"

\* C11 witness: get_code at a numbered block has resolved the address and
\* has read the bytecode of the resolved account at that block
C11_Witness ==
  /\ op = "get_code"
  /\ arg.starknet_block_id = "number 7"
  /\ Len(calls) = 2
  /\ calls[2].req = BytecodeRequest(WideFelt, "number 7")
  /\ result.kind = "ok"

(***************************************************************************)
(* Properties of call_view.                                                *)
(***************************************************************************)
\* the argument list of the eth_call issued by call_view
EthCallArguments == calls[1].req.calldata

\* C12: call_view issues exactly one provider call, the eth_call of the
\* interpreter, with the 5 + L arguments [native_addr, MAX_FELT, 0, 0, L,
\* c_1 .. c_L], where native_addr is the native account id of the address
\* and not the foreign address itself.
C12_EthCallArguments ==
  op = "call_view" =>
    /\ Len(calls) = 1
    /\ calls[1].req.contract_address = KakarotAddress
    /\ calls[1].req.entry_point_selector = "eth_call"
    /\ Len(EthCallArguments) = 5 + Len(arg.calldata)
    /\ EthCallArguments[1] # AddressToFelt(arg.ethereum_address)
    /\ EthCallArguments[2] = FeltMax
    /\ EthCallArguments[3] = FeltZero
    /\ EthCallArguments[4] = FeltZero
    /\ EthCallArguments[5] = Felt(Len(arg.calldata))
    /\ \A i \in 1..Len(arg.calldata) :
         EthCallArguments[5 + i] = Felt(arg.calldata[i])

\* the eth_call of call_view was answered and its return data decoded into
\* a list of segments
SegmentsDecoded ==
  /\ op = "call_view"
  /\ calls[1].resp.kind = "ok"
  /\ calls[1].resp.value.decoded.kind = "ok"

\* the decoded list of segments
Segments == calls[1].resp.value.decoded.value

\* C13: call_view returns an error, not a panic and not an empty or default
\* byte string, when the decoded segment list is empty or its first segment
\* is a scalar; it returns Ok only when the first segment is a felt array.
C13_SegmentErrors ==
  /\ op = "call_view" => result.kind # "panic"
  /\ SegmentsDecoded =>
       /\ pc = "done"
       /\ Segments = <<>> =>
            result = Err("Cannot parse and decode last argument of Kakarot call")
       /\ (Segments # <<>> /\ Segments[1].variant = "Felt") =>
            result = Err("Cannot parse and decode the return data of Kakarot call")
       /\ (Segments # <<>> /\ Segments[1].variant = "FeltArray") =>
            result.kind = "ok"
  /\ (op = "call_view" /\ result.kind = "ok") =>
       /\ SegmentsDecoded
       /\ Segments # <<>>
       /\ Segments[1].variant = "FeltArray"

\* C13 witness: the first segment is a scalar and call_view returns the
\* error of the return data
C13_Witness ==
  /\ SegmentsDecoded
  /\ Segments = <<FeltSegment(Felt(5))>>
  /\ result.kind = "err"

\* the first segment of the answer is a felt array
ArrayDecoded ==
  /\ SegmentsDecoded
  /\ Segments # <<>>
  /\ Segments[1].variant = "FeltArray"

\* the value of the field element is in [0, 255]
FitsByte(f) == BigUintLess(BigUintFromBytesBe(f), <<1, 0>>)

\* the positions of the elements of the first segment that fit one byte
ByteElements ==
  {i \in 1..Len(Segments[1].array) : FitsByte(Segments[1].array[i])}

\* C14: decoding the felt array of the first segment emits every element in
\* [0, 255] as one byte, in the original order, and drops every other
\* element without error; an array whose elements all fit one byte is
\* returned unchanged.
C14_ByteDecoding ==
  ArrayDecoded =>
    /\ result.kind = "ok"
    /\ Len(result.value) = Cardinality(ByteElements)
    /\ \A i \in ByteElements :
         result.value[Cardinality({j \in ByteElements : j <= i})]
           = Segments[1].array[i][32]
    /\ ByteElements = 1..Len(Segments[1].array) =>
         result.value = [i \in 1..Len(Segments[1].array) |-> Segments[1].array[i][32]]

\* C14 witness: an array with elements on both sides of 255 is decoded, the
\* large ones dropped and the order kept
C14_Witness ==
  /\ ArrayDecoded
  /\ ByteElements = {1, 4, 6, 7}
  /\ result = Ok(<<65, 66, 0, 255>>)

(***************************************************************************)
(* Properties of the status of a receipt.                                  *)
(***************************************************************************)
\* the status of the receipt the provider returned
NativeStatus == calls[1].resp.value.status

\* C15: every returned receipt carries a status code, which is 0 when the
\* native status is Rejected or Pending and 1 when it is AcceptedOnL1 or
\* AcceptedOnL2; the mapping is defined for the four native statuses.
C15_StatusCode ==
  ReceiptReturned =>
    /\ NativeStatus \in {"Rejected", "Pending", "AcceptedOnL1", "AcceptedOnL2"}
    /\ result.value.value.status_code.some
    /\ result.value.value.status_code.value \in {0, 1}
    /\ NativeStatus \in {"Rejected", "Pending"} =>
         result.value.value.status_code = Some(0)
    /\ NativeStatus \in {"AcceptedOnL1", "AcceptedOnL2"} =>
         result.value.value.status_code = Some(1)

\* C15 witness: a confirmed invoke receipt whose status is Pending is
\* returned with status code 0
C15_Witness ==
  /\ ReceiptReturned
  /\ NativeStatus = "Pending"
  /\ result.value.value.status_code = Some(0)

(***************************************************************************)
(* Properties of estimate_gas.                                             *)
(***************************************************************************)
\* C16: estimate_gas terminates, for every input, by returning an error
\* value to its caller: never a number and never an abnormal abort.
C16_EstimateGasNotSupported ==
  op = "estimate_gas" =>
    /\ pc = "done"
    /\ result.kind = "err"

(***************************************************************************)
(* Properties of the checks of to_eth_log.                                 *)
(***************************************************************************)
\* C17: to_eth_log rejects every event whose emitter is not the interpreter,
\* whatever its keys and data, before it looks at the keys; an event of the
\* interpreter without keys is rejected as malformed; otherwise the address
\* of a returned log is the low 20 bytes of the last key; no provider call
\* is issued.
C17_EmitterChecks ==
  op = "to_eth_log" =>
    /\ calls = <<>>
    /\ pc = "done"
    /\ arg.event.from_address # KakarotAddress =>
         result = Err("Kakarot Filter: Event is not part of Kakarot")
    /\ (arg.event.from_address = KakarotAddress /\ arg.event.keys = <<>>) =>
         result = Err("Kakarot Filter: Event is not an Kakarot evm event")
    /\ (arg.event.from_address = KakarotAddress /\ arg.event.keys # <<>>) =>
         /\ result # Err("Kakarot Filter: Event is not part of Kakarot")
         /\ result # Err("Kakarot Filter: Event is not an Kakarot evm event")
         /\ result.kind = "ok" =>
              result.value.address =
                [i \in 1..20 |-> arg.event.keys[Len(arg.event.keys)][12 + i]]

\* C17 witness: an event of another contract that has no keys is rejected
\* for its emitter
C17_Witness ==
  /\ op = "to_eth_log"
  /\ arg.event.from_address = OtherAddress
  /\ arg.event.keys = <<>>
  /\ result = Err("Kakarot Filter: Event is not part of Kakarot")

\* C19: for every event of the interpreter, whatever its keys and data,
\* to_eth_log ends with a log whose topics are 32 bytes long or with an
\* error value; the padding never underflows and the call never aborts.
C19_ToEthLogTotal ==
  (op = "to_eth_log" /\ arg.event.from_address = KakarotAddress) =>
    /\ result.kind \in {"ok", "err"}
    /\ result.kind = "ok" =>
         \A i \in 1..Len(result.value.topics) :
           Len(result.value.topics[i]) = HashLen

(***************************************************************************)
(* Properties of transaction_by_hash and                                   *)
(* transaction_by_block_id_and_index.                                      *)
(***************************************************************************)
\* the handler translates one native transaction
TranslatesTransaction ==
  op \in {"transaction_by_hash", "transaction_by_block_id_and_index"}

\* the provider has answered the get_transaction_receipt of the handler
\* with a receipt
TransactionReceiptArrived ==
  /\ TranslatesTransaction
  /\ Len(calls) = 2
  /\ calls[2].resp.kind = "ok"

\* the receipt is a confirmed invoke receipt
ConfirmedInvoke(receipt) ==
  receipt.variant = "Receipt" /\ receipt.type = "Invoke"

\* C18: in transaction_by_hash and transaction_by_block_id_and_index, once
\* the provider has returned the receipt, the handler goes on to translate
\* the transaction whatever the receipt is; the block hash and the block
\* number it passes to the translation are both present exactly when the
\* receipt is a confirmed invoke receipt, and are then those of the receipt;
\* the result of the handler is the outcome of the translation.
C18_BlockFromConfirmedInvoke ==
  /\ TransactionReceiptArrived =>
       LET receipt == calls[2].resp.value
           passed  == loc.translation
       IN  /\ calls[2].req.method = "get_transaction_receipt"
           /\ pc \in {"to_eth_transaction", "done"}
           /\ passed.some
           /\ passed.value.block_hash.some = ConfirmedInvoke(receipt)
           /\ passed.value.block_number.some = ConfirmedInvoke(receipt)
           /\ ConfirmedInvoke(receipt) =>
                /\ passed.value.block_hash.value = FeltToBytesBe(receipt.block_hash)
                /\ passed.value.block_number.value = U256From(receipt.block_number)
           /\ pc = "done" =>
                result \in TransactionTranslations(loc.transaction.value, passed.value)
  /\ (TranslatesTransaction /\ Len(calls) >= 1 /\ loc.translation.some) =>
       TransactionReceiptArrived

\* C18 witness: transaction_by_block_id_and_index gets a pending receipt and
\* returns the translated transaction without block hash and number
C18_Witness ==
  /\ op = "transaction_by_block_id_and_index"
  /\ TransactionReceiptArrived
  /\ calls[2].resp.value.variant = "PendingReceipt"
  /\ result.kind = "ok"
  /\ result.value.block_hash = None
  /\ result.value.block_number = None
  /\ result.value.transaction_index = Some(U256From(2))

====
